---------------------------- MODULE Spec2Model ----------------------------
(***************************************************************************)
(* Price snapshot maintenance engine of price_monitor_github.py: the       *)
(* classification of timestamps into 6-hour buckets, deduplication,        *)
(* retention, backfill of missing instants and the replacement of the      *)
(* current-price sample, as one run of main().                             *)
(*                                                                         *)
(* Timestamps are unix seconds (UTC), as in the program.  The series is    *)
(* kept as the program keeps it: three parallel lists (timestamps, blocks, *)
(* prices).  A price is a float computed from two storage words read at a  *)
(* block; here it is represented by the block number it was read at        *)
(* (PriceAt), which is all the series operations ever look at.             *)
(***************************************************************************)
EXTENDS Integers, Sequences, FiniteSets, TLC

VARIABLES
    \* ---- one run of main() ----
    pc,                     \* position of the run in main() / collect_historical_data()
    store,                  \* content of LOCAL_DATA_FILE (the persisted series)
    saves,                  \* number of save_data() calls of the run
    ArrayOfTimestamps,      \* main(): the in-memory series, three parallel lists
    ArrayOfBlocksSearched,
    ArrayOfActualPrices,
    chain,                  \* the remote chain: [tip0, now0, gapEnd, gapLen]
    tip,                    \* newest block the endpoint has (the chain grows)
    current_time,           \* enforce_30_day_limit(): time.time() of its last call (-1: not read)
    current_block,          \* main(): head block read before backfill (0: none)
    current_timestamp,      \* main(): its timestamp
    bf,                     \* locals of collect_historical_data()
    rd,                     \* locals of getSlot0() / get_storage_with_retry()
    rpc,                    \* endpoint calls made inside collect_historical_data()
    stage,                  \* the last stage of the run that has completed
    \* ---- harness for the pure series functions ----
    fnPc, fnIn, fnOut, fnPrev,
    \* ---- one run of mirror_data.py ----
    mirror,                 \* the DataMirror object and the position of main()
    local_dir,              \* the files under the local data directory
    mirror_status           \* content of mirror_status.txt ("": not written)

runVars == <<pc, store, saves, ArrayOfTimestamps, ArrayOfBlocksSearched,
             ArrayOfActualPrices, chain, tip, current_time, current_block,
             current_timestamp, bf, rd, rpc, stage>>
fnVars == <<fnPc, fnIn, fnOut, fnPrev>>
mirrorVars == <<mirror, local_dir, mirror_status>>
vars == <<runVars, fnVars, mirrorVars>>

-----------------------------------------------------------------------------
(* Program constants *)

SECONDS_PER_DAY == 86400
SECONDS_PER_HOUR == 3600
SECONDS_PER_MINUTE == 60
TARGET_HOURS == <<0, 6, 12, 18>>
DAYS_BACK == 29
MAX_DATA_POINTS == 4 * 30 + 1
TOLERANCE_MINUTES == 30

Abs(x) == IF x < 0 THEN -x ELSE x
Min(a, b) == IF a <= b THEN a ELSE b
Max(a, b) == IF a >= b THEN a ELSE b

-----------------------------------------------------------------------------
(* datetime helpers (UTC) *)

\* dt.replace(hour=0, minute=0, second=0, microsecond=0).timestamp()
StartOfUTCDay(ts) == ts - (ts % SECONDS_PER_DAY)
\* a variant that rounds the seconds of dt to the nearest minute
MinuteOfDay_rounded(ts) == ((ts % SECONDS_PER_DAY) + 30) \div SECONDS_PER_MINUTE
\* dt.hour * 60 + dt.minute : the seconds of dt are dropped
MinuteOfDay(ts) == (ts % SECONDS_PER_DAY) \div SECONDS_PER_MINUTE

\* is_target_time(timestamp, tolerance_minutes)
is_target_time_tol(timestamp, tolerance_minutes) ==
    \E k \in 1..Len(TARGET_HOURS) :
        LET d == Abs(MinuteOfDay(timestamp) - TARGET_HOURS[k] * 60)
        IN  Min(d, 24 * 60 - d) <= tolerance_minutes

is_target_time(timestamp) == is_target_time_tol(timestamp, TOLERANCE_MINUTES)

\* target_times of get_exact_target_timestamp: the day's four instants, then
\* the next day's midnight, in that order
target_times(timestamp) ==
    [k \in 1..5 |->
        IF k <= 4 THEN StartOfUTCDay(timestamp) + TARGET_HOURS[k] * SECONDS_PER_HOUR
                  ELSE StartOfUTCDay(timestamp) + SECONDS_PER_DAY]

\* get_exact_target_timestamp: the first of target_times at minimal distance
\* (the loop replaces closest_target only on a strictly smaller distance)
get_exact_target_timestamp(timestamp) ==
    LET tt == target_times(timestamp)
        k == CHOOSE i \in 1..5 :
                /\ \A j \in 1..5 : Abs(timestamp - tt[i]) <= Abs(timestamp - tt[j])
                /\ \A j \in 1..(i-1) : Abs(timestamp - tt[j]) > Abs(timestamp - tt[i])
    IN  tt[k]

-----------------------------------------------------------------------------
(* Lists *)

\* a list written as a function, as the tuple it is
List(f) == f \o <<>>

\* the three parallel lists as one list of rows, and a column of it
Rows(timestamps, blocks, prices) ==
    List([i \in 1..Len(timestamps) |->
            [timestamp |-> timestamps[i], block |-> blocks[i], price |-> prices[i],
             index |-> i]])
Column(rows, field) == List([i \in 1..Len(rows) |-> rows[i][field]])

\* list.insert(pos, x) with a 0-based pos in 0..len
ListInsert(s, pos, x) == SubSeq(s, 1, pos) \o <<x>> \o SubSeq(s, pos + 1, Len(s))

\* list.sort(key=...) is stable: an element lands behind every element with a
\* smaller key and behind the elements with an equal key that preceded it
\* (keys[i] is the key of s[i])
StableSort(s, keys) ==
    LET placed == List([i \in 1..Len(s) |-> [k |-> keys[i], pos |-> i]])
        sorted == SortSeq(placed, LAMBDA a, b :
                            a.k < b.k \/ (a.k = b.k /\ a.pos < b.pos))
    IN  List([p \in 1..Len(s) |-> s[sorted[p].pos]])

\* list.sort(key=lambda x: x['timestamp'])
SortByTimestamp(s) == StableSort(s, Column(s, "timestamp"))

\* the three parallel lists as one value
Lists(ts, bl, pr) == [timestamps |-> ts, blocks |-> bl, prices |-> pr]
EmptyLists == Lists(<<>>, <<>>, <<>>)
ListsOf(rows) ==
    Lists(Column(rows, "timestamp"), Column(rows, "block"), Column(rows, "price"))

-----------------------------------------------------------------------------
(* comprehensive_data_cleanup_with_dedup *)

\* the data_point dicts the first loop builds
data_points(timestamps, blocks, prices) == Rows(timestamps, blocks, prices)

\* the key under which the first loop files a data point in target_groups, or
\* -1 when it goes to non_target_data
group_key(timestamp) ==
    IF is_target_time_tol(timestamp, 30) THEN get_exact_target_timestamp(timestamp)
    ELSE -1

group_keys(dps) == List([i \in 1..Len(dps) |-> group_key(dps[i].timestamp)])

\* keys of target_groups in insertion order (a dict keeps first-insertion
\* order): the keys of the data points that are the first with their key
target_group_keys(dps) ==
    LET key == group_keys(dps)
    IN  SelectSeq(List([i \in 1..Len(dps) |->
                          IF key[i] # -1 /\ \A j \in 1..(i-1) : key[j] # key[i]
                          THEN key[i] ELSE -1]),
                  LAMBDA k : k # -1)

\* target_groups[exact_target]: its data points in input order
target_group(dps, key, exact_target) ==
    SelectSeq(dps, LAMBDA dp : key[dp.index] = exact_target)

non_target_data(dps) ==
    LET key == group_keys(dps)
    IN  SelectSeq(dps, LAMBDA dp : key[dp.index] = -1)

\* a variant of the inner loop with <= for <: the last data point of the group
\* at minimal distance
closest_point_last(group, exact_target) ==
    LET k == CHOOSE i \in 1..Len(group) :
                /\ \A j \in 1..Len(group) :
                       Abs(group[i].timestamp - exact_target)
                           <= Abs(group[j].timestamp - exact_target)
                /\ \A j \in (i+1)..Len(group) :
                       Abs(group[j].timestamp - exact_target)
                           > Abs(group[i].timestamp - exact_target)
    IN  group[k]

\* the inner loop: the first data point of the group at minimal distance
closest_point(group, exact_target) ==
    LET k == CHOOSE i \in 1..Len(group) :
                /\ \A j \in 1..Len(group) :
                       Abs(group[i].timestamp - exact_target)
                           <= Abs(group[j].timestamp - exact_target)
                /\ \A j \in 1..(i-1) :
                       Abs(group[j].timestamp - exact_target)
                           > Abs(group[i].timestamp - exact_target)
    IN  group[k]

\* a variant without the inner loop: every data point of a group is kept
deduplicated_targets_all(dps) ==
    LET key == group_keys(dps)
    IN  SelectSeq(dps, LAMBDA dp : key[dp.index] # -1)

deduplicated_targets(dps) ==
    LET key == group_keys(dps)
        keys == target_group_keys(dps)
    IN  List([g \in 1..Len(keys) |->
            LET group == target_group(dps, key, keys[g])
            IN  IF Len(group) = 1 THEN group[1] ELSE closest_point(group, keys[g])])

\* a variant that appends the most recent non-target data point only when
\* there was more than one to choose from
comprehensive_data_cleanup_drop_single(timestamps, blocks, prices) ==
    IF timestamps = <<>> THEN Lists(timestamps, blocks, prices)
    ELSE
      LET dps == data_points(timestamps, blocks, prices)
          targets == SortByTimestamp(deduplicated_targets(dps))
          others == SortByTimestamp(non_target_data(dps))
          cleaned == IF Len(others) > 1 THEN Append(targets, others[Len(others)])
                     ELSE targets
      IN  ListsOf(SortByTimestamp(cleaned))

\* a variant without the sort of combined_data
comprehensive_data_cleanup_unsorted(timestamps, blocks, prices) ==
    IF timestamps = <<>> THEN Lists(timestamps, blocks, prices)
    ELSE
      LET dps == data_points(timestamps, blocks, prices)
          targets == SortByTimestamp(deduplicated_targets(dps))
          others == SortByTimestamp(non_target_data(dps))
          cleaned == IF others # <<>> THEN Append(targets, others[Len(others)])
                     ELSE targets
      IN  ListsOf(cleaned)

comprehensive_data_cleanup_with_dedup(timestamps, blocks, prices) ==
    IF timestamps = <<>> THEN Lists(timestamps, blocks, prices)
    ELSE
      LET dps == data_points(timestamps, blocks, prices)
          targets == SortByTimestamp(deduplicated_targets(dps))
          others == SortByTimestamp(non_target_data(dps))
          cleaned == IF others # <<>> THEN Append(targets, others[Len(others)])
                     ELSE targets
          combined_data == SortByTimestamp(cleaned)
      IN  ListsOf(combined_data)

-----------------------------------------------------------------------------
(* Retention, current-price replacement, missing instants *)

\* a variant with timedelta(days=30)
get_30_day_date_range_30(now) ==
    [start_date |-> StartOfUTCDay(now) - 30 * SECONDS_PER_DAY,
     end_date |-> StartOfUTCDay(now)]

\* get_30_day_date_range: (start_date, end_date) as timestamps
get_30_day_date_range(now) ==
    [start_date |-> StartOfUTCDay(now) - DAYS_BACK * SECONDS_PER_DAY,
     end_date |-> StartOfUTCDay(now)]

\* a variant that removes every sample older than the cutoff, near a target
\* time or not
enforce_30_day_limit_all_old(timestamps, blocks, prices, time_now) ==
    IF timestamps = <<>> THEN Lists(timestamps, blocks, prices)
    ELSE
      LET cutoff_timestamp == get_30_day_date_range(time_now).start_date
          remove(row) == row.timestamp < cutoff_timestamp
      IN  ListsOf(SelectSeq(Rows(timestamps, blocks, prices), LAMBDA row : ~remove(row)))

\* enforce_30_day_limit, with time_now the value of its time.time()
enforce_30_day_limit(timestamps, blocks, prices, time_now) ==
    IF timestamps = <<>> THEN Lists(timestamps, blocks, prices)
    ELSE
      LET cutoff_timestamp == get_30_day_date_range(time_now).start_date
          \* indices_to_remove are popped from the three lists alike
          remove(row) == is_target_time(row.timestamp) /\ row.timestamp < cutoff_timestamp
      IN  ListsOf(SelectSeq(Rows(timestamps, blocks, prices), LAMBDA row : ~remove(row)))

\* a variant that removes nothing before it appends
update_current_price_keep_all(timestamps, blocks, prices, cur_timestamp, cur_block, cur_price) ==
    Lists(Append(timestamps, cur_timestamp),
          Append(blocks, cur_block),
          Append(prices, cur_price))

update_current_price(timestamps, blocks, prices, cur_timestamp, cur_block, cur_price) ==
    LET \* indices_to_remove are popped from the three lists alike
        remove(row) == ~is_target_time(row.timestamp)
        kept == ListsOf(SelectSeq(Rows(timestamps, blocks, prices), LAMBDA row : ~remove(row)))
    IN  Lists(Append(kept.timestamps, cur_timestamp),
              Append(kept.blocks, cur_block),
              Append(kept.prices, cur_price))

\* get_target_timestamps_for_day
get_target_timestamps_for_day(day_timestamp) ==
    [k \in 1..Len(TARGET_HOURS) |->
        StartOfUTCDay(day_timestamp) + TARGET_HOURS[k] * SECONDS_PER_HOUR]

\* list.sort() of integers
SortInts(s) == StableSort(s, s)

\* the target timestamps the loop of get_missing_timestamps visits, in its
\* order: day by day from start_date to end_date, hour by hour
visited_targets(start_date, end_date) ==
    LET days == IF end_date < start_date THEN 0
                ELSE (end_date - start_date) \div SECONDS_PER_DAY + 1
        n == Len(TARGET_HOURS)
    IN  List([k \in 1..(days * n) |->
            get_target_timestamps_for_day(
                start_date + ((k - 1) \div n) * SECONDS_PER_DAY)[((k - 1) % n) + 1]])

\* a variant without the test target_ts < current_timestamp
get_missing_timestamps_with_future(timestamps, cur_timestamp) ==
    LET existing == SelectSeq(timestamps, LAMBDA ts : is_target_time(ts))
        range == get_30_day_date_range(cur_timestamp)
        missing(target_ts) ==
            /\ \A e \in 1..Len(existing) : existing[e] # target_ts
            /\ ~\E e \in 1..Len(existing) : Abs(existing[e] - target_ts) < 30 * 60
    IN  SortInts(SelectSeq(visited_targets(range.start_date, range.end_date), missing))

get_missing_timestamps(timestamps, cur_timestamp) ==
    LET \* existing_target_times, a set in the program
        existing == SelectSeq(timestamps, LAMBDA ts : is_target_time(ts))
        range == get_30_day_date_range(cur_timestamp)
        missing(target_ts) ==
            /\ target_ts < cur_timestamp
            /\ \A e \in 1..Len(existing) : existing[e] # target_ts
            /\ ~\E e \in 1..Len(existing) : Abs(existing[e] - target_ts) < 30 * 60
    IN  SortInts(SelectSeq(visited_targets(range.start_date, range.end_date), missing))

\* a variant that appends: insert_pos is the length of the list
insert_pos_of_end(timestamps, actual_timestamp) == Len(timestamps)

\* insert_pos of collect_historical_data: the length of the longest prefix of
\* timestamps whose elements are all smaller than actual_timestamp
insert_pos_of(timestamps, actual_timestamp) ==
    LET stop == {j \in 1..Len(timestamps) : ~(actual_timestamp > timestamps[j])}
    IN  IF stop = {} THEN Len(timestamps)
        ELSE (CHOOSE j \in stop : \A k \in stop : j <= k) - 1

insert_point(timestamps, blocks, prices, actual_timestamp, estimated_block, price) ==
    LET insert_pos == insert_pos_of(timestamps, actual_timestamp)
    IN  Lists(ListInsert(timestamps, insert_pos, actual_timestamp),
              ListInsert(blocks, insert_pos, estimated_block),
              ListInsert(prices, insert_pos, price))

-----------------------------------------------------------------------------
(* Block estimation *)

RECURSIVE GCD(_, _)
GCD(a, b) == IF b = 0 THEN a ELSE GCD(b, a % b)

\* int(x / y) for the float quotient of integers x and y > 0: truncation toward 0
IntDiv(x, y) == IF x >= 0 THEN x \div y ELSE -((-x) \div y)

BLOCKS_24H_AGO_ESTIMATE == 43200
FALLBACK_SECONDS_PER_BLOCK == 2
MAX_CORRECTION_ATTEMPTS == 10
CONVERGENCE_SECONDS == 30 * 60
STORAGE_RETRIES == 5
CHECKPOINT_EVERY == 10

sample_block_24h_ago(cur_block) == Max(1, cur_block - BLOCKS_24H_AGO_ESTIMATE)

\* estimate_block_from_timestamp; sample_timestamp is the timestamp fetched for
\* sample_block_24h_ago, or -1 when that get_block raised.  seconds_per_block is
\* the fraction actual_time_diff / actual_block_diff, kept exact (reduced), so
\* int(time_diff / seconds_per_block) = int(time_diff * block_diff / time_diff').
estimate_block_from_timestamp(target_timestamp, cur_block, cur_timestamp, sample_timestamp) ==
    LET time_diff == cur_timestamp - target_timestamp
        actual_time_diff == cur_timestamp - sample_timestamp
        actual_block_diff == cur_block - sample_block_24h_ago(cur_block)
        g == GCD(actual_time_diff, actual_block_diff)
        blocks_diff ==
            IF sample_timestamp = -1 THEN IntDiv(time_diff, 2)
            ELSE IF actual_block_diff > 0 /\ actual_time_diff > 0
                 THEN IntDiv(time_diff * (actual_block_diff \div g), actual_time_diff \div g)
                 ELSE IntDiv(time_diff, FALLBACK_SECONDS_PER_BLOCK)
    IN  Max(1, cur_block - blocks_diff)

\* seconds_per_block of estimate_block_from_timestamp, as the reduced fraction
\* num / den: the measured one, or 2.0 (also the 2 of the except clause)
seconds_per_block(cur_block, cur_timestamp, sample_timestamp) ==
    LET actual_time_diff == cur_timestamp - sample_timestamp
        actual_block_diff == cur_block - sample_block_24h_ago(cur_block)
        g == GCD(actual_time_diff, actual_block_diff)
    IN  IF sample_timestamp # -1 /\ actual_block_diff > 0 /\ actual_time_diff > 0
        THEN [num |-> actual_time_diff \div g, den |-> actual_block_diff \div g]
        ELSE [num |-> FALLBACK_SECONDS_PER_BLOCK, den |-> 1]

\* one pass of the correction loop body: the next guess
corrected_block(estimated_block, actual_timestamp, target_timestamp) ==
    IF actual_timestamp < target_timestamp
    THEN estimated_block + IntDiv(target_timestamp - actual_timestamp, 2)
    ELSE estimated_block - IntDiv(actual_timestamp - target_timestamp, 2)

\* a variant of the loop condition that lets an eleventh correction through
needs_correction_once_more(actual_timestamp, target_timestamp, attempts) ==
    /\ Abs(actual_timestamp - target_timestamp) > CONVERGENCE_SECONDS
    /\ attempts <= MAX_CORRECTION_ATTEMPTS

\* the loop condition
needs_correction(actual_timestamp, target_timestamp, attempts) ==
    /\ Abs(actual_timestamp - target_timestamp) > CONVERGENCE_SECONDS
    /\ attempts < MAX_CORRECTION_ATTEMPTS

-----------------------------------------------------------------------------
(* The environment: the chain behind the endpoint, and the persisted store *)

BLOCK_TIME == 2            \* seconds between blocks of the chain
HeadBlock0 == 20000000     \* number of the newest block when the run starts
Day0 == 19675              \* the run starts on UTC day Day0 + DAYS_BACK
MaxHoles == 2              \* instants missing from the persisted series
MaxExtras == 1             \* samples of the persisted series beside the instants'
CallCap == 2               \* rpc counts saturate here ("CallCap or more")
OutageSeconds == 7200      \* length of the chain's outage, when it had one

WindowStart0 == Day0 * SECONDS_PER_DAY
Today0 == WindowStart0 + DAYS_BACK * SECONDS_PER_DAY

\* wall-clock times at which the run may start: shortly after an instant
\* (12:10:00), far from every instant (15:00:00), one second before midnight
StartTimes == {Today0 + 12 * 3600 + 600, Today0 + 15 * 3600, Today0 + 86399}

\* timestamp of block b: blocks are BLOCK_TIME apart, except that no block was
\* produced during the outage, the gapLen seconds before gapEnd
BlockTimestampOn(c, b) ==
    LET regular == c.now0 - BLOCK_TIME * (c.tip0 - b)
    IN  IF regular >= c.gapEnd THEN regular ELSE regular - c.gapLen
BlockTimestamp(b) == BlockTimestampOn(chain, b)

\* a block of the chain produced at ts, or the first one after it
BlockAtOn(c, ts) ==
    LET regular == IF ts >= c.gapEnd THEN ts ELSE ts + c.gapLen
    IN  c.tip0 - ((c.now0 - regular) \div BLOCK_TIME)

\* the float getSlot0(block) computes from the two pools' words at that block
PriceAt(block) == block

SampleAt(c, ts) == [timestamp |-> ts, block |-> BlockAtOn(c, ts),
                    price |-> PriceAt(BlockAtOn(c, ts))]

\* every canonical instant of the 30 days ending on the day of now that is
\* not later than now, ascending
InstantsUpTo(now) ==
    SelectSeq(visited_targets(get_30_day_date_range(now).start_date,
                              get_30_day_date_range(now).end_date),
              LAMBDA t : t <= now)

\* instants the persisted series may lack: the first of the window, the one in
\* the middle of the outage, the last one before now
OutageInstant == WindowStart0 + 15 * SECONDS_PER_DAY + 12 * SECONDS_PER_HOUR
HoleCandidates(now) ==
    {WindowStart0, OutageInstant, InstantsUpTo(now)[Len(InstantsUpTo(now))]}

\* timestamps the persisted series may hold beside the instants: an old
\* off-target sample (the current price of an earlier run), a sample 30.5
\* minutes after the first instant of the window, a sample 10 minutes before
\* the window, and the sample of a run 29 minutes ago
ExtraCandidates(now) ==
    {Today0 - 2 * SECONDS_PER_DAY + 15 * SECONDS_PER_HOUR,
     WindowStart0 + 1830,
     WindowStart0 - 600,
     now - 1739}

Chains(now) ==
    {[tip0 |-> HeadBlock0, now0 |-> now, gapEnd |-> 0, gapLen |-> 0],
     [tip0 |-> HeadBlock0, now0 |-> now,
      gapEnd |-> OutageInstant + OutageSeconds \div 2, gapLen |-> OutageSeconds]}

\* the elements of a small set of integers, ascending
Ascending(S) ==
    List([k \in 1..Cardinality(S) |->
            CHOOSE x \in S : Cardinality({y \in S : y < x}) = k - 1])

\* the persisted series: a sample at every instant up to now but the holes,
\* and the extra samples; ascending
PersistedSeries(c, now, holes, extras) ==
    LET ts == SortInts(SelectSeq(InstantsUpTo(now), LAMBDA t : t \notin holes)
                         \o Ascending(extras))
    IN  Lists(ts, List([i \in 1..Len(ts) |-> BlockAtOn(c, ts[i])]),
              List([i \in 1..Len(ts) |-> PriceAt(BlockAtOn(c, ts[i]))]))

NoBackfill ==
    [current_block |-> 0, current_timestamp |-> 0, missing |-> <<>>, i |-> 0,
     estimated_block |-> 0, actual_timestamp |-> 0, attempts |-> 0,
     head_ok |-> FALSE, head_timestamp |-> 0, entry |-> EmptyLists,
     attempted |-> <<>>, before |-> EmptyLists, last |-> "none",
     fetched |-> <<>>, seconds_per_block |-> [num |-> 0, den |-> 1]]
NoRead == [ctx |-> "none", slot |-> 0, block |-> 0]
NoCalls == [block_number |-> 0, get_block |-> 0, get_storage_at |-> 0]

-----------------------------------------------------------------------------
(* mirror_data.py: the data of a mirror run *)

max_retries == 3           \* test_server_availability
MaxBlock == 2              \* block numbers in the JSON files of the sources
OldRun == 1                \* last_updated stamp of the backup of an earlier run
ThisRun == OldRun + 1      \* datetime.utcnow() of this run

\* what a source may answer to the GET of test_server_availability: no answer
\* or an HTTP error status (an exception), less than 100 bytes, 100 bytes or
\* more that read as an error page (a title or text with 404, no file links),
\* a directory listing
Responses == {"exception", "minimal", "error_page", "ok"}

\* one pass of the loop of test_server_availability: "true" and "false" are
\* its return statements, "continue" is the end of the pass
attempt_result(resp, is_github_pages, attempt) ==
    IF resp = "exception" THEN "continue"
    ELSE IF resp = "minimal"
         THEN IF attempt < max_retries - 1 THEN "continue" ELSE "false"
    ELSE IF is_github_pages THEN "true"
    ELSE IF resp = "error_page"
         THEN IF attempt < max_retries - 1 THEN "continue" ELSE "false"
    ELSE "true"

comparison_files == <<"uu_mined_blocks_testnet.json", "uniswap_v4_data_testnet.json">>
IsComparisonFile(f) == \E k \in 1..Len(comparison_files) : comparison_files[k] = f

\* the files of the primary source: a regular file and the two comparison
\* files; the local directory holds these, index.json and README.md
RegularFile == "file.json"
RemoteFiles == {RegularFile} \cup {comparison_files[k] : k \in 1..Len(comparison_files)}
LocalFiles == RemoteFiles \cup {"index.json", "README.md"}

\* directory listings of the primary source
Listings ==
    {<<>>, <<RegularFile>>, <<comparison_files[1]>>,
     <<RegularFile, comparison_files[1]>>,
     <<RegularFile, comparison_files[1], comparison_files[2]>>}

\* the local directory: content 0 is a file that does not exist
NoDir == [exists |-> FALSE, files |-> [f \in LocalFiles |-> 0]]
OldBackup ==
    [exists |-> TRUE,
     files |-> [f \in LocalFiles |->
                  IF f \in {"index.json", "README.md"} THEN OldRun ELSE 1]]

NoStats == [downloaded |-> 0, updated |-> 0, errors |-> 0, skipped |-> 0]
NoMirror ==
    [pc |-> "idle", attempt |-> 0, primary_available |-> FALSE,
     alt_available |-> FALSE, files_found |-> <<>>, stats |-> NoStats,
     files |-> <<>>, i |-> 0, before |-> NoDir]
MirrorIdle == mirror = NoMirror /\ local_dir = NoDir /\ mirror_status = ""

\* download_file: content -1 is a failed request, 0 an empty body; a dict
\* handed in as override_content is never empty
download_file(dir, stats, path, content) ==
    IF content = -1 THEN [dir |-> dir, stats |-> [stats EXCEPT !.errors = @ + 1]]
    ELSE IF content = 0 THEN [dir |-> dir, stats |-> [stats EXCEPT !.skipped = @ + 1]]
    ELSE IF dir.files[path] # content
         THEN [dir |-> [exists |-> TRUE, files |-> [dir.files EXCEPT ![path] = content]],
               stats |-> IF dir.files[path] = 0
                         THEN [stats EXCEPT !.downloaded = @ + 1]
                         ELSE [stats EXCEPT !.updated = @ + 1]]
         ELSE [dir |-> [dir EXCEPT !.exists = TRUE],
               stats |-> [stats EXCEPT !.skipped = @ + 1]]

\* compare_json_sources: the source to use and its data (the block number
\* stands for the file), source "none" when both failed; a block of 0 is a
\* failed request, and an unavailable source is not asked
compare_json_sources(m, primary_block, alt_block) ==
    LET primary_data == IF m.primary_available THEN primary_block ELSE 0
        alt_data == IF m.alt_available THEN alt_block ELSE 0
    IN  IF primary_data = 0 /\ alt_data = 0 THEN [source |-> "none", data |-> 0]
        ELSE IF primary_data = 0 THEN [source |-> "alt", data |-> alt_data]
        ELSE IF alt_data = 0 THEN [source |-> "primary", data |-> primary_data]
        ELSE IF alt_data > primary_data THEN [source |-> "alt", data |-> alt_data]
        ELSE [source |-> "primary", data |-> primary_data]

FnIdle == fnPc = "idle" /\ fnIn = EmptyLists /\ fnOut = EmptyLists /\ fnPrev = EmptyLists

Init ==
    /\ \E now \in StartTimes :
       \E c \in Chains(now) :
       \E holes \in SUBSET HoleCandidates(now) :
       \E extras \in SUBSET ExtraCandidates(now) :
          /\ Cardinality(holes) <= MaxHoles
          /\ Cardinality(extras) <= MaxExtras
          \* the series has no sample from inside an outage
          /\ c.gapLen > 0 => OutageInstant \in holes
          /\ chain = c
          /\ store = PersistedSeries(c, now, holes, extras)
    /\ tip = chain.tip0
    /\ pc = "load"
    /\ stage = "start"
    /\ saves = 0
    /\ ArrayOfTimestamps = <<>>
    /\ ArrayOfBlocksSearched = <<>>
    /\ ArrayOfActualPrices = <<>>
    /\ current_time = -1
    /\ current_block = 0
    /\ current_timestamp = 0
    /\ bf = NoBackfill
    /\ rd = NoRead
    /\ rpc = NoCalls
    /\ FnIdle
    /\ MirrorIdle

-----------------------------------------------------------------------------
(* One run of main() *)

Series == Lists(ArrayOfTimestamps, ArrayOfBlocksSearched, ArrayOfActualPrices)

SetSeries(l) ==
    /\ ArrayOfTimestamps' = l.timestamps
    /\ ArrayOfBlocksSearched' = l.blocks
    /\ ArrayOfActualPrices' = l.prices

seriesVars == <<ArrayOfTimestamps, ArrayOfBlocksSearched, ArrayOfActualPrices>>

\* the chain may have grown by the time the program looks at it again
MayGrow == {0, 1}

\* the wall clock reads the timestamp of the newest block
WallClock(newest) == BlockTimestamp(newest)

Bump(n) == IF n < CallCap THEN n + 1 ELSE CallCap
Called(kind) == [rpc EXCEPT ![kind] = Bump(@)]

\* w3.eth.get_block(b) can answer only for a block the chain has
HasBlock(b) == 0 <= b /\ b <= tip

\* load_data(): the file is read into the three lists
LoadData ==
    /\ pc = "load"
    /\ SetSeries(store)
    /\ pc' = "enforce_first"
    /\ stage' = "load"
    /\ UNCHANGED <<store, saves, chain, tip, current_time, current_block,
                   current_timestamp, bf, rd, rpc, fnVars, mirrorVars>>

\* main(): the first enforce_30_day_limit
EnforceLimitFirst ==
    /\ pc = "enforce_first"
    /\ SetSeries(enforce_30_day_limit(ArrayOfTimestamps, ArrayOfBlocksSearched,
                                      ArrayOfActualPrices, WallClock(tip)))
    /\ current_time' = IF ArrayOfTimestamps = <<>> THEN -1 ELSE WallClock(tip)
    /\ pc' = "cleanup"
    /\ stage' = "enforce_first"
    /\ UNCHANGED <<store, saves, chain, tip, current_block, current_timestamp,
                   bf, rd, rpc, fnVars, mirrorVars>>

\* main(): comprehensive_data_cleanup_with_dedup
Cleanup ==
    /\ pc = "cleanup"
    /\ SetSeries(comprehensive_data_cleanup_with_dedup(
                    ArrayOfTimestamps, ArrayOfBlocksSearched, ArrayOfActualPrices))
    /\ pc' = "get_current_block"
    /\ stage' = "cleanup"
    /\ UNCHANGED <<store, saves, chain, tip, current_time, current_block,
                   current_timestamp, bf, rd, rpc, fnVars, mirrorVars>>

\* a variant of main() without the return: it goes on to its final save_data
StartupFailedPc_no_return == "save"
\* where main() goes when get_current_block_and_timestamp() gave (None, None):
\* it returns
StartupFailedPc == "exit"

\* main(): get_current_block_and_timestamp(); on (None, None) main returns
MainGetCurrentBlock ==
    /\ pc = "get_current_block"
    /\ \E ok \in BOOLEAN :
         IF ok
         THEN /\ current_block' = tip
              /\ current_timestamp' = BlockTimestamp(tip)
              /\ pc' = "collect"
         ELSE /\ UNCHANGED <<current_block, current_timestamp>>
              /\ pc' = StartupFailedPc
    /\ UNCHANGED <<store, saves, chain, tip, current_time, bf, rd, rpc, stage,
                   seriesVars, fnVars, mirrorVars>>

\* collect_historical_data(): its own get_current_block_and_timestamp(), then
\* get_missing_timestamps()
CollectStart ==
    /\ pc = "collect"
    /\ \E grow \in MayGrow, outcome \in {"ok", "block_number_failed", "get_block_failed"} :
         /\ tip' = tip + grow
         /\ rpc' = [NoCalls EXCEPT !.block_number = 1,
                                   !.get_block = IF outcome = "block_number_failed"
                                                 THEN 0 ELSE 1]
         /\ IF outcome = "ok"
            THEN LET cts == BlockTimestampOn(chain, tip + grow)
                     missing == get_missing_timestamps(ArrayOfTimestamps, cts)
                 IN  /\ bf' = [NoBackfill EXCEPT
                                 !.current_block = tip + grow,
                                 !.current_timestamp = cts,
                                 !.missing = missing,
                                 !.i = 1,
                                 !.head_ok = TRUE,
                                 !.head_timestamp = cts,
                                 !.entry = Series]
                     /\ pc' = IF missing = <<>> THEN "enforce_final" ELSE "estimate"
            ELSE /\ bf' = [NoBackfill EXCEPT
                             !.head_timestamp = BlockTimestampOn(chain, tip + grow),
                             !.entry = Series]
                 /\ pc' = "enforce_final"
    /\ stage' = "collect_start"
    /\ UNCHANGED <<store, saves, chain, current_time, current_block,
                   current_timestamp, rd, seriesVars, fnVars, mirrorVars>>

target_timestamp == bf.missing[bf.i]

\* the except clause of the loop body, or the end of a pass: on to the next
\* missing timestamp, or out of the loop
AfterInstant(how) ==
    [bf EXCEPT !.i = @ + 1, !.last = how,
               !.estimated_block = 0, !.actual_timestamp = 0, !.attempts = 0,
               !.fetched = <<>>,
               !.seconds_per_block = NoBackfill.seconds_per_block]
LoopPc(b) == IF b.i > Len(b.missing) THEN "enforce_final" ELSE "estimate"
\* a variant with break where the program has continue
ExceptPc_break(b) == "enforce_final"
\* except Exception: ... continue
ExceptPc(b) == LoopPc(b)

\* loop body: estimate_block_from_timestamp(), which catches a failure of its
\* own get_block and falls back to 2 seconds per block
EstimateBlock ==
    /\ pc = "estimate"
    /\ \E ok \in BOOLEAN :
         LET sample_timestamp ==
                 IF ok THEN BlockTimestamp(sample_block_24h_ago(bf.current_block)) ELSE -1
         IN  bf' = [bf EXCEPT
                      !.estimated_block = estimate_block_from_timestamp(
                           target_timestamp, bf.current_block, bf.current_timestamp,
                           sample_timestamp),
                      !.actual_timestamp = 0,
                      !.attempts = 0,
                      !.attempted = Append(@, target_timestamp),
                      !.before = Series,
                      !.fetched = <<>>,
                      !.seconds_per_block = seconds_per_block(
                           bf.current_block, bf.current_timestamp, sample_timestamp)]
    /\ rpc' = Called("get_block")
    /\ pc' = "fetch"
    /\ UNCHANGED <<store, saves, chain, tip, current_time, current_block,
                   current_timestamp, rd, stage, seriesVars, fnVars, mirrorVars>>

\* loop body: block_data = w3.eth.get_block(estimated_block)
FetchEstimatedBlock ==
    /\ pc = "fetch"
    /\ rpc' = Called("get_block")
    /\ \E ok \in {TRUE, FALSE} :
         IF ok /\ HasBlock(bf.estimated_block)
         THEN /\ bf' = [bf EXCEPT
                           !.actual_timestamp = BlockTimestamp(bf.estimated_block),
                           !.fetched = <<BlockTimestamp(bf.estimated_block)>>]
              /\ pc' = "correct"
         ELSE /\ bf' = AfterInstant("failed")
              /\ pc' = ExceptPc(AfterInstant("failed"))
    /\ UNCHANGED <<store, saves, chain, tip, current_time, current_block,
                   current_timestamp, rd, stage, seriesVars, fnVars, mirrorVars>>

\* loop body: one pass of the while loop, or its exit into getSlot0()
CorrectEstimate ==
    /\ pc = "correct"
    /\ IF needs_correction(bf.actual_timestamp, target_timestamp, bf.attempts)
       THEN LET guess == corrected_block(bf.estimated_block, bf.actual_timestamp,
                                         target_timestamp)
            IN  /\ rpc' = Called("get_block")
                /\ \E ok \in {TRUE, FALSE} :
                     IF ok /\ HasBlock(guess)
                     THEN /\ bf' = [bf EXCEPT !.estimated_block = guess,
                                              !.actual_timestamp = BlockTimestamp(guess),
                                              !.attempts = @ + 1,
                                              !.fetched = Append(@, BlockTimestamp(guess))]
                          /\ pc' = "correct"
                     ELSE /\ bf' = AfterInstant("failed")
                          /\ pc' = ExceptPc(AfterInstant("failed"))
                /\ rd' = rd
       ELSE /\ rd' = [ctx |-> "backfill", slot |-> 1, block |-> bf.estimated_block]
            /\ pc' = "get_storage"
            /\ UNCHANGED <<bf, rpc>>
    /\ UNCHANGED <<store, saves, chain, tip, current_time, current_block,
                   current_timestamp, stage, seriesVars, fnVars, mirrorVars>>

\* a variant of main() without the try around getSlot0(current_block): the
\* RuntimeError ends the run
CurrentPriceFailedPc_raise == "exit"
\* main(): except Exception around getSlot0(current_block) and
\* update_current_price; the final save_data follows
CurrentPriceFailedPc == "save"

\* getSlot0(): one get_storage_with_retry() call, for the first pool's slot and
\* then for the second's.  The call makes get_storage_at calls until one
\* succeeds; after STORAGE_RETRIES failures it raises.
GetStorageWithRetry ==
    /\ pc = "get_storage"
    /\ \E failures \in 0..STORAGE_RETRIES :
         /\ rpc' = IF rd.ctx = "backfill"
                   THEN [rpc EXCEPT !.get_storage_at =
                            Min(CallCap, @ + Min(STORAGE_RETRIES, failures + 1))]
                   ELSE rpc
         /\ IF failures < STORAGE_RETRIES
            THEN IF rd.slot = 1
                 THEN /\ rd' = [rd EXCEPT !.slot = 2]
                      /\ pc' = "get_storage"
                      /\ bf' = bf
                 ELSE /\ rd' = [NoRead EXCEPT !.block = rd.block]
                      /\ pc' = IF rd.ctx = "backfill" THEN "insert" ELSE "update"
                      /\ bf' = bf
            ELSE /\ rd' = NoRead
                 /\ IF rd.ctx = "backfill"
                    THEN /\ bf' = AfterInstant("failed")
                         /\ pc' = ExceptPc(AfterInstant("failed"))
                    ELSE /\ bf' = bf
                         /\ pc' = CurrentPriceFailedPc
    /\ UNCHANGED <<store, saves, chain, tip, current_time, current_block,
                   current_timestamp, stage, seriesVars, fnVars, mirrorVars>>

\* loop body: the three inserts at insert_pos, and the save of every 10th pass
InsertPoint ==
    /\ pc = "insert"
    /\ LET l == insert_point(ArrayOfTimestamps, ArrayOfBlocksSearched, ArrayOfActualPrices,
                             bf.actual_timestamp, bf.estimated_block, PriceAt(rd.block))
       IN  /\ SetSeries(l)
           /\ IF bf.i % CHECKPOINT_EVERY = 0
              THEN store' = l /\ saves' = saves + 1
              ELSE UNCHANGED <<store, saves>>
    /\ bf' = AfterInstant("inserted")
    /\ pc' = LoopPc(AfterInstant("inserted"))
    /\ stage' = "insert"
    /\ UNCHANGED <<chain, tip, current_time, current_block, current_timestamp,
                   rd, rpc, fnVars, mirrorVars>>

\* main(): the final enforce_30_day_limit
EnforceLimitFinal ==
    /\ pc = "enforce_final"
    /\ \E grow \in MayGrow :
         /\ tip' = tip + grow
         /\ SetSeries(enforce_30_day_limit(ArrayOfTimestamps, ArrayOfBlocksSearched,
                                           ArrayOfActualPrices,
                                           BlockTimestampOn(chain, tip + grow)))
         /\ current_time' = IF ArrayOfTimestamps = <<>> THEN -1
                            ELSE BlockTimestampOn(chain, tip + grow)
    /\ rd' = [ctx |-> "current", slot |-> 1, block |-> current_block]
    /\ bf' = NoBackfill     \* collect_historical_data() has returned
    /\ rpc' = NoCalls
    /\ pc' = "get_storage"
    /\ stage' = "enforce_final"
    /\ UNCHANGED <<store, saves, chain, current_block, current_timestamp, fnVars, mirrorVars>>

\* main(): update_current_price with the price getSlot0(current_block) returned
UpdateCurrentPrice ==
    /\ pc = "update"
    /\ SetSeries(update_current_price(ArrayOfTimestamps, ArrayOfBlocksSearched,
                                      ArrayOfActualPrices, current_timestamp,
                                      current_block, PriceAt(rd.block)))
    /\ pc' = "save"
    /\ stage' = "update"
    /\ UNCHANGED <<store, saves, chain, tip, current_time, current_block,
                   current_timestamp, bf, rd, rpc, fnVars, mirrorVars>>

\* main(): the final save_data
SaveFinal ==
    /\ pc = "save"
    /\ store' = Series
    /\ saves' = saves + 1
    /\ pc' = "done"
    /\ UNCHANGED <<chain, tip, current_time, current_block, current_timestamp,
                   bf, rd, rpc, stage, seriesVars, fnVars, mirrorVars>>

Next ==
    \/ LoadData
    \/ EnforceLimitFirst
    \/ Cleanup
    \/ MainGetCurrentBlock
    \/ CollectStart
    \/ EstimateBlock
    \/ FetchEstimatedBlock
    \/ CorrectEstimate
    \/ GetStorageWithRetry
    \/ InsertPoint
    \/ EnforceLimitFinal
    \/ UpdateCurrentPrice
    \/ SaveFinal

Spec == Init /\ [][Next]_vars

\* The positions whose step computes on the whole series.  Such a step is
\* enabled exactly when the run is at the position, and it always leaves it.
SeriesPositions ==
    {"load", "enforce_first", "cleanup", "collect", "insert", "enforce_final", "update",
     "save"}
Positions ==
    SeriesPositions \cup {"get_current_block", "estimate", "fetch", "correct",
                          "get_storage", "exit", "done"}
Leaves(p) == pc = p /\ pc' \in Positions \ {p}

\* main() is one sequential program: as long as a step is left it takes it.
\* (For a position of SeriesPositions the steps of Next that leave it are the
\* steps of its action, so fairness is stated for leaving the position.)
FairSpec ==
    /\ Init /\ [][Next]_vars
    /\ \A p \in SeriesPositions : WF_pc(Leaves(p))
    /\ WF_vars(MainGetCurrentBlock)
    /\ WF_vars(EstimateBlock)
    /\ WF_vars(FetchEstimatedBlock)
    /\ WF_vars(CorrectEstimate)
    /\ WF_vars(GetStorageWithRetry)

-----------------------------------------------------------------------------
(* A run after the monitor has been down for some days: the persisted series  *)
(* lacks the newest instants, and nothing else                                *)

Downtime == 11             \* instants the monitor missed while it was down

\* the newest n instants not later than now
NewestInstants(now, n) ==
    LET all == InstantsUpTo(now)
    IN  {all[k] : k \in (Len(all) - n + 1)..Len(all)}

ShortOutage == 1800        \* length of an outage of the chain during the downtime
LongOutage == 14400        \* length of an outage that ended shortly before the run

\* the chain of such a run: regular, or with no block for ShortOutage seconds
\* before 13:30 of the day before the run, or with no block for OutageSeconds
\* seconds around 06:00 of the day of the run, or with no block for LongOutage
\* seconds before 14:30 of the day of the run
DowntimeChains ==
    {[tip0 |-> HeadBlock0, now0 |-> Today0 + 15 * SECONDS_PER_HOUR,
      gapEnd |-> 0, gapLen |-> 0],
     [tip0 |-> HeadBlock0, now0 |-> Today0 + 15 * SECONDS_PER_HOUR,
      gapEnd |-> Today0 - SECONDS_PER_DAY + 13 * SECONDS_PER_HOUR + 1800,
      gapLen |-> ShortOutage],
     [tip0 |-> HeadBlock0, now0 |-> Today0 + 15 * SECONDS_PER_HOUR,
      gapEnd |-> Today0 + 6 * SECONDS_PER_HOUR + OutageSeconds \div 2,
      gapLen |-> OutageSeconds],
     [tip0 |-> HeadBlock0, now0 |-> Today0 + 15 * SECONDS_PER_HOUR,
      gapEnd |-> Today0 + 14 * SECONDS_PER_HOUR + 1800,
      gapLen |-> LongOutage]}

InitDowntime ==
    /\ chain \in DowntimeChains
    /\ store = PersistedSeries(chain, chain.now0,
                               NewestInstants(chain.now0, Downtime), {})
    /\ tip = chain.tip0
    /\ pc = "load"
    /\ stage = "start"
    /\ saves = 0
    /\ ArrayOfTimestamps = <<>>
    /\ ArrayOfBlocksSearched = <<>>
    /\ ArrayOfActualPrices = <<>>
    /\ current_time = -1
    /\ current_block = 0
    /\ current_timestamp = 0
    /\ bf = NoBackfill
    /\ rd = NoRead
    /\ rpc = NoCalls
    /\ FnIdle
    /\ MirrorIdle

SpecDowntime == InitDowntime /\ [][Next]_vars

-----------------------------------------------------------------------------
(* comprehensive_data_cleanup_with_dedup on its own: applied to a list of      *)
(* samples, and then to its own output                                          *)

MaxLen == 3                \* length of the list handed to the function

\* timestamps around midnight of Today0 (T): T-1801 (off), T-1800, T-300, T+300,
\* T+1800, T+1830 (still 00:30 on the clock), T+1860 (off), 03:00 (off, halfway
\* to 06:00), 06:00
DedupTimestamps ==
    {Today0 - 1801, Today0 - 1800, Today0 - 300, Today0 + 300, Today0 + 1800,
     Today0 + 1830, Today0 + 1860, Today0 + 3 * SECONDS_PER_HOUR, Today0 + 6 * SECONDS_PER_HOUR}

\* samples: one per timestamp, and a second one, of another block, at T+300 and
\* at 03:00
DedupSamples ==
    {[timestamp |-> t, block |-> 1, price |-> PriceAt(1)] : t \in DedupTimestamps}
      \cup {[timestamp |-> t, block |-> 2, price |-> PriceAt(2)] :
                t \in {Today0 + 300, Today0 + 3 * SECONDS_PER_HOUR}}

RunIdle ==
    /\ pc = "idle" /\ stage = "idle" /\ store = EmptyLists /\ saves = 0
    /\ ArrayOfTimestamps = <<>> /\ ArrayOfBlocksSearched = <<>>
    /\ ArrayOfActualPrices = <<>>
    /\ chain = [tip0 |-> HeadBlock0, now0 |-> Today0, gapEnd |-> 0, gapLen |-> 0]
    /\ tip = HeadBlock0 /\ current_time = -1 /\ current_block = 0
    /\ current_timestamp = 0 /\ bf = NoBackfill /\ rd = NoRead /\ rpc = NoCalls

InitDedup ==
    /\ RunIdle
    /\ MirrorIdle
    /\ fnPc = "input"
    /\ \E n \in 0..MaxLen : \E samples \in [1..n -> DedupSamples] :
         fnIn = ListsOf(samples)
    /\ fnOut = EmptyLists
    /\ fnPrev = EmptyLists

DedupOnce ==
    /\ fnPc = "input"
    /\ fnOut' = comprehensive_data_cleanup_with_dedup(fnIn.timestamps, fnIn.blocks,
                                                      fnIn.prices)
    /\ fnPc' = "once"
    /\ UNCHANGED <<fnIn, fnPrev, runVars, mirrorVars>>

DedupAgain ==
    /\ fnPc = "once"
    /\ fnPrev' = fnOut
    /\ fnOut' = comprehensive_data_cleanup_with_dedup(fnOut.timestamps, fnOut.blocks,
                                                      fnOut.prices)
    /\ fnPc' = "twice"
    /\ UNCHANGED <<fnIn, runVars, mirrorVars>>

NextDedup == DedupOnce \/ DedupAgain

SpecDedup == InitDedup /\ [][NextDedup]_vars

-----------------------------------------------------------------------------
(* get_storage_with_retry on its own, one get_storage_at call at a time       *)

\* storage words, as the bytes the endpoint returns (32 on the chain)
StorageWords == {<<1, 0>>, <<255, 1>>}

\* what the endpoint may answer to a get_storage_at call: an error, or the
\* bytes of the word
StorageAnswers ==
    {[ok |-> FALSE, data |-> <<>>]}
      \cup {[ok |-> TRUE, data |-> d] : d \in StorageWords}

\* int.from_bytes(data, "big")
from_bytes_big(data) ==
    LET value[k \in 0..Len(data)] ==
            IF k = 0 THEN 0 ELSE value[k - 1] * 256 + data[k]
    IN  value[Len(data)]

\* a variant of the loop test that lets one more attempt through
retry_allowed_once_more(attempt) == attempt <= STORAGE_RETRIES
\* while attempt < retries
retry_allowed(attempt) == attempt < STORAGE_RETRIES

\* fnIn: the answers the endpoint gives to the 1st, 2nd, ... call;
\* fnOut: the locals of the call, the number of get_storage_at calls made and
\* the value returned
InitRetry ==
    /\ RunIdle
    /\ MirrorIdle
    /\ fnPc = "retry"
    /\ fnIn \in [1..(STORAGE_RETRIES + 1) -> StorageAnswers]
    /\ fnOut = [attempt |-> 0, calls |-> 0, value |-> -1]
    /\ fnPrev = <<>>

\* one pass of the while loop: the call, and return or except
StorageAttempt ==
    /\ fnPc = "retry"
    /\ retry_allowed(fnOut.attempt)
    /\ LET answer == fnIn[fnOut.calls + 1]
       IN  IF answer.ok
           THEN /\ fnOut' = [fnOut EXCEPT !.calls = @ + 1,
                                          !.value = from_bytes_big(answer.data)]
                /\ fnPc' = "returned"
           ELSE /\ fnOut' = [fnOut EXCEPT !.calls = @ + 1, !.attempt = @ + 1]
                /\ fnPc' = "retry"
    /\ fnPrev' = Append(fnPrev, fnIn[fnOut.calls + 1])
    /\ UNCHANGED <<fnIn, runVars, mirrorVars>>

\* raise RuntimeError after the loop
StorageRaise ==
    /\ fnPc = "retry"
    /\ ~retry_allowed(fnOut.attempt)
    /\ fnPc' = "raised"
    /\ UNCHANGED <<fnIn, fnOut, fnPrev, runVars, mirrorVars>>

NextRetry == StorageAttempt \/ StorageRaise

SpecRetry == InitRetry /\ [][NextRetry]_vars

-----------------------------------------------------------------------------
(* enforce_30_day_limit and update_current_price on their own: applied to a    *)
(* list of samples, in any order                                                *)

\* time.time() of the call, and current_timestamp: 15:00:00 of Today0, or
\* midnight of the day after
SeriesNows == {Today0 + 15 * SECONDS_PER_HOUR, Today0 + SECONDS_PER_DAY}

\* timestamps: midnight 31 days before Today0, 03:00 of that day (off), ten
\* minutes before the window of Today0, its first instant, 30.5 minutes after
\* it, midnight 10 days before Today0, 14:59:00 of Today0 (off)
SeriesTimestamps ==
    {Today0 - 31 * SECONDS_PER_DAY,
     Today0 - 31 * SECONDS_PER_DAY + 3 * SECONDS_PER_HOUR,
     WindowStart0 - 600,
     WindowStart0,
     WindowStart0 + 1830,
     Today0 - 10 * SECONDS_PER_DAY,
     Today0 + 15 * SECONDS_PER_HOUR - 60}

\* samples: one per timestamp, and a second one, of another block, at the
\* first instant of the window and at 03:00 of the old day
SeriesSamples ==
    {[timestamp |-> t, block |-> 1, price |-> PriceAt(1)] : t \in SeriesTimestamps}
      \cup {[timestamp |-> t, block |-> 2, price |-> PriceAt(2)] :
                t \in {WindowStart0, Today0 - 31 * SECONDS_PER_DAY + 3 * SECONDS_PER_HOUR}}

\* fnIn: the three lists; fnPrev: the time of the call and the newest block
InitSeriesOps ==
    /\ RunIdle
    /\ MirrorIdle
    /\ fnPc = "input"
    /\ \E n \in 0..MaxLen : \E samples \in [1..n -> SeriesSamples] :
         fnIn = ListsOf(samples)
    /\ \E now \in SeriesNows : fnPrev = [time_now |-> now, current_block |-> HeadBlock0]
    /\ fnOut = EmptyLists

EnforceOnce ==
    /\ fnPc = "input"
    /\ fnOut' = enforce_30_day_limit(fnIn.timestamps, fnIn.blocks, fnIn.prices,
                                     fnPrev.time_now)
    /\ fnPc' = "enforced"
    /\ UNCHANGED <<fnIn, fnPrev, runVars, mirrorVars>>

UpdateOnce ==
    /\ fnPc = "input"
    /\ fnOut' = update_current_price(fnIn.timestamps, fnIn.blocks, fnIn.prices,
                                     fnPrev.time_now, fnPrev.current_block,
                                     PriceAt(fnPrev.current_block))
    /\ fnPc' = "updated"
    /\ UNCHANGED <<fnIn, fnPrev, runVars, mirrorVars>>

NextSeriesOps == EnforceOnce \/ UpdateOnce

SpecSeriesOps == InitSeriesOps /\ [][NextSeriesOps]_vars

-----------------------------------------------------------------------------
(* unpack_slot0 on its own.  A 256-bit word is the set of the positions of its *)
(* 1 bits, bit 0 the least significant                                         *)

\* packed >> n
ShiftRight(w, n) == {b - n : b \in {x \in w : x >= n}}
\* packed & ((1 << k) - 1)
MaskLow(w, k) == {b \in w : b < k}
\* the integer a word of at most 24 bits stands for
ToInt(w) ==
    LET value[k \in 0..24] ==
            IF k = 0 THEN 0
            ELSE value[k - 1] + (IF (k - 1) \in w THEN 2^(k - 1) ELSE 0)
    IN  value[24]

\* a variant without the sign of tick
unpack_slot0_unsigned(packed) ==
    [sqrtPriceX96 |-> MaskLow(packed, 160),
     tick |-> ToInt(MaskLow(ShiftRight(packed, 160), 24)),
     protocolFee |-> ToInt(MaskLow(ShiftRight(packed, 184), 24)),
     lpFee |-> ToInt(MaskLow(ShiftRight(packed, 208), 24))]

\* unpack_slot0: sqrtPriceX96 stays a word, the other three are integers
unpack_slot0(packed) ==
    LET tick == MaskLow(ShiftRight(packed, 160), 24)
    IN  [sqrtPriceX96 |-> MaskLow(packed, 160),
         tick |-> IF 23 \in tick THEN ToInt(tick) - 2^24 ELSE ToInt(tick),
         protocolFee |-> ToInt(MaskLow(ShiftRight(packed, 184), 24)),
         lpFee |-> ToInt(MaskLow(ShiftRight(packed, 208), 24))]

\* the bits a word handed to unpack_slot0 may have set: the lowest and the
\* highest of each field, and of the 24 bits above the fields
WordBits == {0, 159, 160, 183, 184, 207, 208, 231, 232, 255}

InitUnpack ==
    /\ RunIdle
    /\ MirrorIdle
    /\ fnPc = "input"
    /\ fnIn \in SUBSET WordBits
    /\ fnOut = <<>>
    /\ fnPrev = <<>>

UnpackOnce ==
    /\ fnPc = "input"
    /\ fnOut' = unpack_slot0(fnIn)
    /\ fnPc' = "unpacked"
    /\ UNCHANGED <<fnIn, fnPrev, runVars, mirrorVars>>

NextUnpack == UnpackOnce

SpecUnpack == InitUnpack /\ [][NextUnpack]_vars

-----------------------------------------------------------------------------
(* is_target_time and get_exact_target_timestamp on their own *)

MaxOffset == 1900          \* seconds before and after a target time

\* timestamps up to MaxOffset seconds from one of the four target times of
\* Today0
ClassifiedTimestamps ==
    {Today0 + TARGET_HOURS[k] * SECONDS_PER_HOUR + d :
        k \in 1..Len(TARGET_HOURS), d \in (-MaxOffset)..MaxOffset}

InitClassify ==
    /\ RunIdle
    /\ MirrorIdle
    /\ fnPc = "input"
    /\ fnIn \in ClassifiedTimestamps
    /\ fnOut = <<>>
    /\ fnPrev = <<>>

ClassifyOnce ==
    /\ fnPc = "input"
    /\ fnOut' = [is_target_time |-> is_target_time_tol(fnIn, 30),
                 exact_target |-> get_exact_target_timestamp(fnIn)]
    /\ fnPc' = "classified"
    /\ UNCHANGED <<fnIn, fnPrev, runVars, mirrorVars>>

NextClassify == ClassifyOnce

SpecClassify == InitClassify /\ [][NextClassify]_vars

-----------------------------------------------------------------------------
(* One run of mirror_data.py *)

InitMirror ==
    /\ RunIdle
    /\ FnIdle
    /\ local_dir \in {NoDir, OldBackup}
    /\ mirror = [NoMirror EXCEPT !.pc = "test_primary", !.before = local_dir]
    /\ mirror_status = ""

\* test_server_availability(url, name, is_github_pages): one pass of its loop;
\* field is the attribute main() assigns the result to
TestAttempt(is_github_pages, field, next_pc) ==
    \E resp \in Responses :
       LET r == attempt_result(resp, is_github_pages, mirror.attempt)
           returned(value) ==
               [mirror EXCEPT ![field] = value, !.attempt = 0, !.pc = next_pc]
       IN  mirror' =
             IF r = "true" THEN returned(TRUE)
             ELSE IF r = "false" \/ mirror.attempt + 1 >= max_retries
                  THEN returned(FALSE)
             ELSE [mirror EXCEPT !.attempt = @ + 1]

MirrorTestPrimary ==
    /\ mirror.pc = "test_primary"
    /\ TestAttempt(FALSE, "primary_available", "test_alt")
    /\ UNCHANGED <<local_dir, mirror_status, runVars, fnVars>>

MirrorTestAlt ==
    /\ mirror.pc = "test_alt"
    /\ TestAttempt(TRUE, "alt_available", "check")
    /\ UNCHANGED <<local_dir, mirror_status, runVars, fnVars>>

\* a variant of main() without the sys.exit(0) after the FAILED status
BothDownPc_no_exit == "alt_source"
\* main(): sys.exit(0) when both sources are unavailable
BothDownPc == "exit"

\* main(): the check of the two results, create_status_file(False) and exit,
\* or os.makedirs and the choice of the mirroring
MirrorCheckSources ==
    /\ mirror.pc = "check"
    /\ IF ~mirror.primary_available /\ ~mirror.alt_available
       THEN /\ mirror_status' = "FAILED"
            /\ mirror' = [mirror EXCEPT !.pc = BothDownPc]
            /\ local_dir' = local_dir
       ELSE /\ local_dir' = [local_dir EXCEPT !.exists = TRUE]
            /\ mirror' = [mirror EXCEPT !.pc = IF mirror.primary_available
                                               THEN "mirror_directory"
                                               ELSE "alt_source"]
            /\ mirror_status' = mirror_status
    /\ UNCHANGED <<runVars, fnVars>>

\* mirror_directory(base_url): get_directory_listing, which returns [] when
\* its request fails
MirrorDirectory ==
    /\ mirror.pc = "mirror_directory"
    /\ \E files \in Listings :
         mirror' = [mirror EXCEPT !.files = files, !.i = 1,
                                  !.pc = IF files = <<>> THEN "validate"
                                         ELSE "mirror_file"]
    /\ UNCHANGED <<local_dir, mirror_status, runVars, fnVars>>

\* mirror_directory: one pass of the loop over the listing
MirrorFile ==
    /\ mirror.pc = "mirror_file"
    /\ LET filename == mirror.files[mirror.i]
           next_pc == IF mirror.i = Len(mirror.files) THEN "validate" ELSE "mirror_file"
       IN  IF IsComparisonFile(filename)
           THEN \E primary_block \in 0..MaxBlock : \E alt_block \in 0..MaxBlock :
                  LET best == compare_json_sources(mirror, primary_block, alt_block)
                      done == download_file(local_dir, mirror.stats, filename, best.data)
                  IN  IF best.source # "none"
                      THEN /\ local_dir' = done.dir
                           /\ mirror' = [mirror EXCEPT
                                  !.files_found = Append(@, <<best.source, filename>>),
                                  !.stats = done.stats,
                                  !.i = @ + 1, !.pc = next_pc]
                      ELSE /\ local_dir' = local_dir
                           /\ mirror' = [mirror EXCEPT
                                  !.stats = [@ EXCEPT !.errors = @ + 1],
                                  !.i = @ + 1, !.pc = next_pc]
           ELSE \E content \in -1..MaxBlock :
                  LET done == download_file(local_dir, mirror.stats, filename, content)
                  IN  /\ local_dir' = done.dir
                      /\ mirror' = [mirror EXCEPT
                             !.files_found = Append(@, <<"primary", filename>>),
                             !.stats = done.stats,
                             !.i = @ + 1, !.pc = next_pc]
    /\ UNCHANGED <<mirror_status, runVars, fnVars>>

\* one pass of the loop of mirror_from_alt_source over an accumulator
\* [dir, stats, files_found]; a block of 0 is a failed request
alt_source_file(acc, filename, alt_block) ==
    IF alt_block = 0
    THEN [acc EXCEPT !.stats = [@ EXCEPT !.errors = @ + 1]]
    ELSE LET done == download_file(acc.dir, acc.stats, filename, alt_block)
         IN  [dir |-> done.dir, stats |-> done.stats,
              files_found |-> Append(acc.files_found, <<"alt", filename>>)]

\* mirror_from_alt_source(): both comparison files
MirrorFromAltSource ==
    /\ mirror.pc = "alt_source"
    /\ \E first_block \in 0..MaxBlock : \E second_block \in 0..MaxBlock :
         LET acc0 == [dir |-> local_dir, stats |-> mirror.stats,
                      files_found |-> mirror.files_found]
             acc1 == alt_source_file(acc0, comparison_files[1], first_block)
             acc2 == alt_source_file(acc1, comparison_files[2], second_block)
         IN  /\ local_dir' = acc2.dir
             /\ mirror' = [mirror EXCEPT !.stats = acc2.stats,
                                         !.files_found = acc2.files_found,
                                         !.pc = "validate"]
    /\ UNCHANGED <<mirror_status, runVars, fnVars>>

\* create_index(): index.json and README.md, written anew with the time of the
\* run
create_index(dir) ==
    [dir EXCEPT !.files = [@ EXCEPT !["index.json"] = ThisRun,
                                    !["README.md"] = ThisRun]]

\* main(): no file found, FAILED and exit; or create_index and SUCCESS
MirrorValidate ==
    /\ mirror.pc = "validate"
    /\ IF mirror.files_found = <<>>
       THEN /\ mirror_status' = "FAILED"
            /\ mirror' = [mirror EXCEPT !.pc = "exit"]
            /\ local_dir' = local_dir
       ELSE /\ local_dir' = create_index(local_dir)
            /\ mirror_status' = "SUCCESS"
            /\ mirror' = [mirror EXCEPT !.pc = "done"]
    /\ UNCHANGED <<runVars, fnVars>>

NextMirror ==
    \/ MirrorTestPrimary
    \/ MirrorTestAlt
    \/ MirrorCheckSources
    \/ MirrorDirectory
    \/ MirrorFile
    \/ MirrorFromAltSource
    \/ MirrorValidate

SpecMirror == InitMirror /\ [][NextMirror]_vars

-----------------------------------------------------------------------------
(* Properties *)

\* the samples of a series that is_target_time rejects
OffBucket(timestamps) == {i \in 1..Len(timestamps) : ~is_target_time(timestamps[i])}

\* the samples of a series that is_target_time accepts
NearTarget(timestamps) == {i \in 1..Len(timestamps) : is_target_time(timestamps[i])}

\* no two near-target samples have the same nearest canonical instant
OnePerBucket(timestamps) ==
    LET near == NearTarget(timestamps)
    IN  Cardinality({get_exact_target_timestamp(timestamps[i]) : i \in near})
            = Cardinality(near)

IsAscending(timestamps) ==
    \A i \in 1..(Len(timestamps) - 1) : timestamps[i] <= timestamps[i + 1]

\* the stages of a run from the dedup onwards
FromDedup == {"cleanup", "collect_start", "insert", "enforce_final", "update"}

\* C1: deduplication is idempotent: comprehensive_data_cleanup_with_dedup
\* applied to its own output returns exactly that output, same samples in the
\* same order, for every list of samples.
C1_DedupIdempotent == fnPc = "twice" => fnOut = fnPrev

\* the list had a duplicate and an off-target sample, the dedup dropped a
\* sample, and it has been applied again
C1_Witness ==
    /\ fnPc = "twice"
    /\ Len(fnPrev.timestamps) < Len(fnIn.timestamps)
    /\ OffBucket(fnPrev.timestamps) # {}
    /\ Cardinality(NearTarget(fnIn.timestamps)) >= 2

\* C2: starting from an ascending persisted series, the series is ascending by
\* timestamp after every stage of a run, the sample update_current_price
\* appends included.
C2_SortedAfterEveryStage == IsAscending(ArrayOfTimestamps)

\* C3: from the dedup onwards, after every stage that changes the series
\* (dedup, each backfill insertion, retention, update_current_price) no two
\* near-target samples have the same nearest canonical instant.
C3_BucketUniqueness == stage \in FromDedup => OnePerBucket(ArrayOfTimestamps)

\* C4: once the dedup has run, every later state of the run has at most one
\* sample for which is_target_time is false.
C4_AtMostOneOffBucket ==
    stage \in FromDedup => Cardinality(OffBucket(ArrayOfTimestamps)) <= 1

\* C5: from the dedup onwards the series has at most MAX_DATA_POINTS = 121
\* samples, and so has every series the run has saved.
C5_LengthBound ==
    /\ stage \in FromDedup => Len(ArrayOfTimestamps) <= MAX_DATA_POINTS
    /\ saves > 0 => Len(store.timestamps) <= MAX_DATA_POINTS

\* C6: in the output of comprehensive_data_cleanup_with_dedup no two samples
\* that is_target_time accepts have the same get_exact_target_timestamp, and at
\* most one sample is one that is_target_time rejects.
C6_BucketCardinality ==
    fnPc \in {"once", "twice"} =>
        /\ OnePerBucket(fnOut.timestamps)
        /\ Cardinality(OffBucket(fnOut.timestamps)) <= 1

\* the input had two samples of one bucket and an off-target sample, and the
\* output has one of each
C6_Witness ==
    /\ fnPc = "once"
    /\ ~OnePerBucket(fnIn.timestamps)
    /\ OffBucket(fnIn.timestamps) # {}
    /\ Len(fnOut.timestamps) = 2
    /\ Cardinality(OffBucket(fnOut.timestamps)) = 1

\* C7: after update_current_price exactly one sample of the series is one for
\* which is_target_time is false.
C7_SingleCurrentSample ==
    stage = "update" => Cardinality(OffBucket(ArrayOfTimestamps)) = 1

\* C8: after enforce_30_day_limit no near-target sample is older than the start
\* of the UTC day of the call, less 29 days.
C8_RetentionPostcondition ==
    (stage \in {"enforce_first", "enforce_final"} /\ current_time # -1) =>
        \A i \in NearTarget(ArrayOfTimestamps) :
            ArrayOfTimestamps[i]
                >= current_time - (current_time % 86400) - 29 * 86400

\* the first retention has dropped a sample of the persisted series
C8_Witness ==
    /\ stage = "enforce_first"
    /\ current_time # -1
    /\ Len(ArrayOfTimestamps) < Len(store.timestamps)
    /\ Len(ArrayOfTimestamps) > 0

\* the canonical instants of the 30-day window of a timestamp that are earlier
\* than the timestamp
WindowInstantsBefore(ts) ==
    {d * 86400 + h * 3600 : d \in ((ts \div 86400) - 29)..(ts \div 86400),
                            h \in {0, 6, 12, 18}} \cap 0..(ts - 1)

\* every such instant has a near-target sample of the series less than 30
\* minutes from it
AllCovered(timestamps, ts) ==
    LET near == {timestamps[i] : i \in NearTarget(timestamps)}
    IN  \A T \in WindowInstantsBefore(ts) : \E e \in near : Abs(e - T) < 1800

\* collect_historical_data has returned and, when it was entered, every
\* instant of the window before the newest block's timestamp was covered
NoOpBackfill == pc = "enforce_final" /\ AllCovered(bf.entry.timestamps, bf.head_timestamp)

AttemptedAscending ==
    \A i \in 1..(Len(bf.attempted) - 1) : bf.attempted[i] < bf.attempted[i + 1]

\* an instant that failed has left the series as it was before the attempt
FailureLeavesSeries == bf.last = "failed" => Series = bf.before

C11_StartupFailureNoSave ==
    /\ [](current_block = 0 => saves = 0)
    /\ [][saves' = saves => store' = store]_vars

\* the run has ended on the failed lookup, with a store that holds a series
C11_Witness ==
    /\ pc = "exit"
    /\ current_block = 0
    /\ stage = "cleanup"
    /\ Len(store.timestamps) > 0

\* C12: a run in which main has obtained the current block and timestamp
\* reaches its final save_data call and ends, whichever later calls fail.
C12_RunReachesFinalSave == (pc = "collect") ~> (pc = "done" /\ saves > 0)

\* the run ended with its final save although backfill's own lookup of the
\* newest block and the reading of the current price both failed
C12_Witness ==
    /\ pc = "done"
    /\ saves > 0
    /\ stage = "enforce_final"

\* the samples inserted by the backfill that no save_data has written yet
UnsavedInsertions ==
    IF saves = 0 THEN Len(ArrayOfTimestamps) - Len(bf.entry.timestamps)
    ELSE Len(ArrayOfTimestamps) - Len(store.timestamps)

\* C13: at every point of the backfill, whichever instants fail, at most 9
\* inserted samples have not been saved.
C13_CheckpointBound ==
    (bf.head_ok /\ pc \in {"estimate", "fetch", "correct", "get_storage", "insert",
                           "enforce_final"})
        => UnsavedInsertions <= 9

\* the timestamp of the sample the last pass of the backfill loop inserted
LastInserted ==
    LET k == CHOOSE k \in 1..Len(ArrayOfTimestamps) :
                /\ k = Len(ArrayOfTimestamps)
                   \/ ArrayOfTimestamps[k] # bf.before.timestamps[k]
                /\ \A j \in 1..(k - 1) : ArrayOfTimestamps[j] = bf.before.timestamps[j]
    IN  ArrayOfTimestamps[k]

\* the backfill loop has just inserted a sample for the instant
\* bf.missing[bf.i - 1]
JustInserted ==
    /\ stage = "insert"
    /\ bf.last = "inserted"
    /\ pc \in {"estimate", "enforce_final"}

\* C14: once the backfill has filled an instant T with a converged estimate
\* (the sample is at most 1800 s from T), get_missing_timestamps on the series
\* as it then is, with the same window, does not list T again.
C14_FilledInstantNotMissing ==
    (JustInserted /\ Abs(LastInserted - bf.missing[bf.i - 1]) <= 1800) =>
        LET again == get_missing_timestamps(ArrayOfTimestamps, bf.current_timestamp)
        IN  \A k \in 1..Len(again) : again[k] # bf.missing[bf.i - 1]

\* the value of a word of bytes, most significant byte first
WordValue(data) ==
    IF Len(data) = 0 THEN 0
    ELSE IF Len(data) = 1 THEN data[1]
    ELSE IF Len(data) = 2 THEN data[1] * 256 + data[2]
    ELSE data[1] * 65536 + data[2] * 256 + data[3]

\* C15: one call of get_storage_with_retry makes at least 1 and at most 5
\* get_storage_at calls; it returns the whole word of the first call that
\* succeeded and calls no more after it; it raises exactly when all 5 calls
\* failed.
C15_BoundedRetry ==
    /\ fnPc \in {"retry", "returned", "raised"} =>
          /\ fnOut.calls <= 5
          /\ Len(fnPrev) = fnOut.calls
          /\ \A k \in 1..Len(fnPrev) : fnPrev[k] = fnIn[k]
    /\ fnPc = "returned" =>
          /\ fnOut.calls >= 1
          /\ fnIn[fnOut.calls].ok
          /\ \A k \in 1..(fnOut.calls - 1) : ~fnIn[k].ok
          /\ fnOut.value = WordValue(fnIn[fnOut.calls].data)
    /\ fnPc = "raised" =>
          /\ fnOut.calls = 5
          /\ \A k \in 1..5 : ~fnIn[k].ok
    /\ (fnPc = "retry" /\ fnOut.calls = 5) => \A k \in 1..5 : ~fnIn[k].ok

\* the call returned the word of its fifth get_storage_at call
C15_Witness ==
    /\ fnPc = "returned"
    /\ fnOut.calls = 5
    /\ fnOut.value = 255 * 256 + 1

\* the correction loop has been left and getSlot0(estimated_block) is next
LoopLeft == pc = "get_storage" /\ rd.ctx = "backfill" /\ rd.slot = 1

\* C16: when the correction loop stops without reaching the 30-minute
\* tolerance, the timestamp it goes on with is the closest to the target among
\* all the timestamps fetched during the estimation.
C16_BestEstimateUsed ==
    (LoopLeft /\ Abs(bf.actual_timestamp - target_timestamp) > 1800) =>
        \A k \in 1..Len(bf.fetched) :
            Abs(bf.actual_timestamp - target_timestamp)
                <= Abs(bf.fetched[k] - target_timestamp)

\* C17: the correction loop makes at most 10 corrections, at most 11 fetches
\* of a guessed block; when it is left, the fetched timestamp is within 1800 s
\* of the target or 10 corrections have been made; when the first fetched
\* timestamp is within 1800 s, no correction is made.
C17_CorrectionLoopBounded ==
    /\ bf.attempts <= 10
    /\ Len(bf.fetched) <= 11
    /\ pc \in {"correct", "get_storage"} /\ rd.ctx # "current" =>
          Len(bf.fetched) = bf.attempts + 1
    /\ LoopLeft =>
          \/ Abs(bf.actual_timestamp - target_timestamp) <= 1800
          \/ bf.attempts = 10
    /\ (LoopLeft /\ Abs(bf.fetched[1] - target_timestamp) <= 1800) =>
          bf.attempts = 0

\* the loop has been left after 10 corrections, still off the target
C17_Witness ==
    /\ LoopLeft
    /\ bf.attempts = 10
    /\ Len(bf.fetched) = 11
    /\ Abs(bf.actual_timestamp - target_timestamp) > 1800

Triple(l, i) == <<l.timestamps[i], l.blocks[i], l.prices[i]>>

\* distance of a timestamp from its canonical instant
Distance(ts) == Abs(ts - get_exact_target_timestamp(ts))

\* the input samples of the same canonical instant as sample i
SameInstant(i) ==
    {j \in NearTarget(fnIn.timestamps) :
        get_exact_target_timestamp(fnIn.timestamps[j])
            = get_exact_target_timestamp(fnIn.timestamps[i])}

\* the input samples of the same canonical instant as sample i and as far from
\* it
TiedWith(i) ==
    {j \in SameInstant(i) : Distance(fnIn.timestamps[j]) = Distance(fnIn.timestamps[i])}

\* the output has exactly one of the input samples S, the first of them
FirstOfKept(S) ==
    LET kept == {k \in 1..Len(fnOut.timestamps) :
                    \E j \in S : Triple(fnOut, k) = Triple(fnIn, j)}
        first == CHOOSE j \in S : \A m \in S : j <= m
    IN  /\ Cardinality(kept) = 1
        /\ \A k \in kept : Triple(fnOut, k) = Triple(fnIn, first)

\* C18, as stated: when two or more samples of a canonical instant are
\* equidistant from it, the dedup keeps exactly one of them, the first in the
\* input.
C18_EquidistantKeepsFirst ==
    fnPc = "once" =>
        \A i \in NearTarget(fnIn.timestamps) :
            Cardinality(TiedWith(i)) >= 2 => FirstOfKept(TiedWith(i))

\* C18, amended: when two or more samples of a canonical instant are
\* equidistant from it and no sample of that instant is closer, the dedup keeps
\* exactly one of them, the first in the input.
C18_ClosestTieKeepsFirst ==
    fnPc = "once" =>
        \A i \in NearTarget(fnIn.timestamps) :
            ( /\ Cardinality(TiedWith(i)) >= 2
              /\ \A j \in SameInstant(i) :
                    Distance(fnIn.timestamps[i]) <= Distance(fnIn.timestamps[j]) )
                => FirstOfKept(TiedWith(i))

\* the input had the sample 300 s after midnight before the one 300 s before
\* it, and the output is the former
C18_Witness ==
    /\ fnPc = "once"
    /\ fnIn.timestamps = <<Today0 + 300, Today0 - 300>>
    /\ fnOut.timestamps = <<Today0 + 300>>

\* the canonical instants that have a near-target sample in a series
InstantsOf(timestamps) ==
    {get_exact_target_timestamp(timestamps[i]) : i \in NearTarget(timestamps)}

\* the samples of a series classified to instant
ClassifiedTo(timestamps, instant) ==
    {i \in NearTarget(timestamps) : get_exact_target_timestamp(timestamps[i]) = instant}

\* C20: the output of the dedup is ascending by timestamp; it holds, for each
\* canonical instant with a near-target input sample, one sample of that
\* instant, an input sample at minimal distance from it; if the input has an
\* off-target sample it holds one off-target sample, an input sample with the
\* maximum timestamp of those; it holds nothing else, and every output sample
\* is an input sample with its (timestamp, block, price) unchanged.
C20_DedupEqualsReference ==
    fnPc = "once" =>
        /\ \A k \in 1..(Len(fnOut.timestamps) - 1) :
              fnOut.timestamps[k] < fnOut.timestamps[k + 1]
        /\ Len(fnOut.blocks) = Len(fnOut.timestamps)
        /\ Len(fnOut.prices) = Len(fnOut.timestamps)
        /\ \A k \in 1..Len(fnOut.timestamps) :
              \E i \in 1..Len(fnIn.timestamps) : Triple(fnOut, k) = Triple(fnIn, i)
        /\ InstantsOf(fnOut.timestamps) = InstantsOf(fnIn.timestamps)
        /\ \A instant \in InstantsOf(fnIn.timestamps) :
              /\ Cardinality(ClassifiedTo(fnOut.timestamps, instant)) = 1
              /\ \A k \in ClassifiedTo(fnOut.timestamps, instant) :
                 \A i \in ClassifiedTo(fnIn.timestamps, instant) :
                    Abs(fnOut.timestamps[k] - instant) <= Abs(fnIn.timestamps[i] - instant)
        /\ IF OffBucket(fnIn.timestamps) = {}
           THEN OffBucket(fnOut.timestamps) = {}
           ELSE /\ Cardinality(OffBucket(fnOut.timestamps)) = 1
                /\ \A k \in OffBucket(fnOut.timestamps) :
                   \A i \in OffBucket(fnIn.timestamps) :
                      fnOut.timestamps[k] >= fnIn.timestamps[i]

\* the input had an off-target sample before two samples of the midnight
\* instant, the farther one first; the output is the off-target one and then
\* the closer one
C20_Witness ==
    /\ fnPc = "once"
    /\ fnIn.timestamps = <<Today0 - 1801, Today0 + 1800, Today0 + 300>>
    /\ fnOut.timestamps = <<Today0 - 1801, Today0 + 300>>

BothSourcesDown == ~mirror.primary_available /\ ~mirror.alt_available

\* C19: when test_server_availability returned false for both sources, the
\* mirror run leaves every file under the local data directory as it found it
\* (none created, changed or deleted), writes the status FAILED, and exits.
C19_BackupPreservedWhenSourcesDown ==
    /\ [](mirror.pc \in {"test_primary", "test_alt", "check"} =>
             local_dir = mirror.before /\ mirror_status = "")
    /\ []((BothSourcesDown /\ mirror.pc \notin {"test_primary", "test_alt", "check"}) =>
             /\ mirror.pc = "exit"
             /\ local_dir = mirror.before
             /\ mirror_status = "FAILED")
    /\ [][(mirror.pc = "check" /\ BothSourcesDown) =>
             (mirror'.pc = "exit" /\ mirror_status' = "FAILED" /\ local_dir' = local_dir)]_vars

\* both sources were down, an earlier backup exists, and the run has exited
C19_Witness ==
    /\ mirror.pc = "exit"
    /\ BothSourcesDown
    /\ mirror_status = "FAILED"
    /\ local_dir = OldBackup

\* get_missing_timestamps has just returned its schedule
Scheduled == stage = "collect_start" /\ bf.head_ok

\* C21: get_missing_timestamps returns, ascending and without repetition,
\* instants of the 30-day window earlier than the current timestamp, and never
\* an instant T for which the series holds a sample that is_target_time accepts
\* and whose nearest canonical instant is T.
C21_ClassifiedNeverScheduled ==
    Scheduled =>
        /\ \A k \in 1..(Len(bf.missing) - 1) : bf.missing[k] < bf.missing[k + 1]
        /\ \A k \in 1..Len(bf.missing) :
              /\ bf.missing[k] \in WindowInstantsBefore(bf.current_timestamp)
              /\ ClassifiedTo(bf.entry.timestamps, bf.missing[k]) = {}

\* the k-th smallest element of a set of indices
NthOf(S, k) == CHOOSE x \in S : Cardinality({y \in S : y < x}) = k - 1

\* the output lists are the input samples at the indices S, in input order
OutputIsSelection(S) ==
    /\ Len(fnOut.timestamps) = Cardinality(S)
    /\ Len(fnOut.blocks) = Cardinality(S)
    /\ Len(fnOut.prices) = Cardinality(S)
    /\ \A k \in 1..Cardinality(S) : Triple(fnOut, k) = Triple(fnIn, NthOf(S, k))

\* the input samples that are near-target and older than the start of the UTC
\* day of the call, less 29 days
OldNearTarget ==
    {i \in NearTarget(fnIn.timestamps) :
        fnIn.timestamps[i] < (fnPrev.time_now - (fnPrev.time_now % 86400)) - 29 * 86400}

\* C22: enforce_30_day_limit removes the samples that are near-target and
\* older than windowStart, and only those: every off-target sample and every
\* near-target sample not older than windowStart is kept with its block and
\* price, in the same relative order.
C22_RetentionFrame ==
    fnPc = "enforced" =>
        OutputIsSelection((1..Len(fnIn.timestamps)) \ OldNearTarget)

\* of the midnight samples 31 days and 10 days back, with an old off-target
\* sample between them, only the first is removed
C22_Witness ==
    /\ fnPc = "enforced"
    /\ fnPrev.time_now = Today0 + 15 * 3600
    /\ fnIn.timestamps = <<Today0 - 31 * 86400, Today0 - 31 * 86400 + 3 * 3600,
                           Today0 - 10 * 86400>>
    /\ fnOut.timestamps = <<Today0 - 31 * 86400 + 3 * 3600, Today0 - 10 * 86400>>

\* the output lists without their last element
OutputButLast ==
    [timestamps |-> SubSeq(fnOut.timestamps, 1, Len(fnOut.timestamps) - 1),
     blocks |-> SubSeq(fnOut.blocks, 1, Len(fnOut.blocks) - 1),
     prices |-> SubSeq(fnOut.prices, 1, Len(fnOut.prices) - 1)]

\* C23: update_current_price removes every sample for which is_target_time is
\* false, leaves the near-target samples unchanged and in the same relative
\* order, and appends one sample (current_timestamp, current_block,
\* current_price) as the last element: the length becomes the number of
\* near-target samples plus one.
C23_UpdateCurrentPriceEffect ==
    fnPc = "updated" =>
        LET near == NearTarget(fnIn.timestamps)
            n == Cardinality(near)
        IN  /\ Len(fnOut.timestamps) = n + 1
            /\ Len(fnOut.blocks) = n + 1
            /\ Len(fnOut.prices) = n + 1
            /\ Triple(fnOut, n + 1)
                  = <<fnPrev.time_now, fnPrev.current_block, fnPrev.current_block>>
            /\ \A k \in 1..n : Triple(OutputButLast, k) = Triple(fnIn, NthOf(near, k))

\* two off-target samples around a sample of the first instant of the window:
\* both are removed and the current sample is appended
C23_Witness ==
    /\ fnPc = "updated"
    /\ fnIn.timestamps = <<Today0 + 15 * 3600 - 60, WindowStart0,
                           Today0 - 31 * 86400 + 3 * 3600>>
    /\ fnOut.timestamps = <<WindowStart0, fnPrev.time_now>>

\* the number of samples of the series with a timestamp smaller than ts
SmallerThan(ts) ==
    Cardinality({j \in 1..Len(ArrayOfTimestamps) : ArrayOfTimestamps[j] < ts})

\* list' is list with x inserted so that n elements precede it
InsertedAfter(list, n, x) ==
    /\ Len(list') = Len(list) + 1
    /\ \A j \in 1..n : list'[j] = list[j]
    /\ list'[n + 1] = x
    /\ \A j \in (n + 1)..Len(list) : list'[j + 1] = list[j]

\* C24: when the series is ascending before an insertion,
\* collect_historical_data inserts the timestamp, the block and the price of
\* the new sample at one index, after all samples with a smaller timestamp and
\* before the first sample with a timestamp not smaller; the series is still
\* ascending and the three lists have the same length.
C24_InsertionPosition ==
    [][(pc = "insert" /\ IsAscending(ArrayOfTimestamps)) =>
          LET n == SmallerThan(bf.actual_timestamp)
          IN  /\ InsertedAfter(ArrayOfTimestamps, n, bf.actual_timestamp)
              /\ InsertedAfter(ArrayOfBlocksSearched, n, bf.estimated_block)
              /\ InsertedAfter(ArrayOfActualPrices, n, bf.estimated_block)
              /\ IsAscending(ArrayOfTimestamps')
              /\ Len(ArrayOfBlocksSearched') = Len(ArrayOfTimestamps')
              /\ Len(ArrayOfActualPrices') = Len(ArrayOfTimestamps')]_vars

\* a sample has been inserted between two samples of the series
C24_Witness ==
    /\ stage = "insert"
    /\ bf.last = "inserted"
    /\ Len(ArrayOfTimestamps) = Len(bf.before.timestamps) + 1
    /\ \E k \in 2..(Len(ArrayOfTimestamps) - 1) :
          /\ \A j \in 1..(k - 1) : ArrayOfTimestamps[j] = bf.before.timestamps[j]
          /\ ArrayOfTimestamps[k] < bf.before.timestamps[k]

\* C25: in each correction the guess moves toward the target, forward when
\* the fetched timestamp is before it and backward when after, by
\* |actual - target| / secondsPerBlock blocks rounded to an integer, with
\* secondsPerBlock the rate measured for that estimation.
C25_CorrectionStepUsesMeasuredRate ==
    [][(pc = "correct" /\ pc' = "correct") =>
          LET gap == Abs(bf.actual_timestamp - target_timestamp)
              step == Abs(bf'.estimated_block - bf.estimated_block)
              rate == bf.seconds_per_block
          IN  /\ bf.actual_timestamp < target_timestamp =>
                    bf'.estimated_block > bf.estimated_block
              /\ bf.actual_timestamp > target_timestamp =>
                    bf'.estimated_block < bf.estimated_block
              /\ 2 * Abs(step * rate.num - gap * rate.den) <= rate.num]_vars

\* the rate measured over the reference block, as a reduced fraction
MeasuredRate ==
    LET reference == Max(1, bf.current_block - 43200)
        time == bf.current_timestamp - BlockTimestamp(reference)
        blocks == bf.current_block - reference
    IN  [num |-> time \div GCD(time, blocks), den |-> blocks \div GCD(time, blocks)]

\* C26: the initial guess is max(1, currentBlock - round((currentTimestamp -
\* target) / secondsPerBlock)), with secondsPerBlock the rate measured over
\* the reference block, or 2 when a difference is not positive or the fetch of
\* the reference block failed.
C26_InitialGuessRounded ==
    pc = "fetch" =>
        LET rate == bf.seconds_per_block
            time_diff == bf.current_timestamp - target_timestamp
            blocks_diff == bf.current_block - bf.estimated_block
        IN  /\ rate = MeasuredRate \/ rate = [num |-> 2, den |-> 1]
            /\ bf.estimated_block >= 1
            /\ bf.estimated_block > 1 =>
                  2 * Abs(blocks_diff * rate.num - time_diff * rate.den) <= rate.num

\* (w div 2^lo) mod 2^24 for the word fnIn
RawField(lo) ==
    LET value[k \in 0..24] ==
            IF k = 0 THEN 0
            ELSE value[k - 1] + (IF (lo + k - 1) \in fnIn THEN 2^(k - 1) ELSE 0)
    IN  value[24]

\* C27: for a word w, sqrtPriceX96 = w mod 2^160, protocolFee = (w div 2^184)
\* mod 2^24, lpFee = (w div 2^208) mod 2^24, and tick is the two's-complement
\* reading of (w div 2^160) mod 2^24: -2^23 <= tick < 2^23 and tick mod 2^24
\* is the raw field; bits 232..255 have no effect on any output.
C27_UnpackSlot0Fields ==
    fnPc = "unpacked" =>
        /\ fnOut.sqrtPriceX96 = {b \in fnIn : b <= 159}
        /\ fnOut.protocolFee = RawField(184)
        /\ fnOut.lpFee = RawField(208)
        /\ fnOut.tick >= -(2^23)
        /\ fnOut.tick < 2^23
        /\ fnOut.tick % (2^24) = RawField(160)
        /\ fnOut = unpack_slot0({b \in fnIn : b <= 231})

\* a word with the sign bit of tick and bits above the fields set: tick is
\* negative
C27_Witness ==
    /\ fnPc = "unpacked"
    /\ {160, 183, 232, 255} \subseteq fnIn
    /\ 184 \notin fnIn
    /\ fnOut.tick = 1 - 2^23
    /\ fnOut.protocolFee = 0

\* C28, as stated: is_target_time(ts, 30) is true if and only if ts is at most
\* 1800 seconds from its nearest canonical instant.
C28_ExactSymmetricTolerance ==
    fnPc = "classified" =>
        (fnOut.is_target_time <=> Abs(fnIn - fnOut.exact_target) <= 1800)

\* C28, amended: is_target_time(ts, 30) is true if and only if ts is at most
\* 1800 seconds before its nearest canonical instant or less than 1860 seconds
\* after it (the minute of ts, seconds dropped, is at most 30 minutes away).
C28_MinuteTolerance ==
    fnPc = "classified" =>
        (fnOut.is_target_time <=>
            /\ fnIn - fnOut.exact_target >= -1800
            /\ fnIn - fnOut.exact_target <= 1859)

\* 00:30:59 is near-target, 1859 seconds after midnight
C28_Witness ==
    /\ fnPc = "classified"
    /\ fnIn = Today0 + 1859
    /\ fnOut.is_target_time
    /\ fnOut.exact_target = Today0

\* C29: every block number the backfill passes to get_block or to the storage
\* read lies in 1..current_block: the reference block, the initial guess, and
\* every corrected guess.
C29_BlockNumbersInRange ==
    /\ [](pc \in {"estimate", "fetch", "correct"} =>
             /\ sample_block_24h_ago(bf.current_block) \in 1..bf.current_block
             /\ pc # "estimate" => bf.estimated_block \in 1..bf.current_block)
    /\ []((pc = "get_storage" /\ rd.ctx = "backfill") => rd.block \in 1..bf.current_block)
    /\ [][(pc = "correct" /\ needs_correction(bf.actual_timestamp, target_timestamp,
                                               bf.attempts)) =>
             corrected_block(bf.estimated_block, bf.actual_timestamp, target_timestamp)
                 \in 1..bf.current_block]_vars

\* collect_historical_data is about to return after a backfill in which every
\* missing instant was attempted and inserted, each within 1800 s of its target
BackfillSucceeded ==
    /\ pc = "enforce_final"
    /\ bf.head_ok
    /\ bf.missing # <<>>
    /\ bf.attempted = bf.missing
    /\ Len(bf.missing) < CallCap => rpc.get_storage_at = Len(bf.missing)   \* no retry
    /\ Len(ArrayOfTimestamps) = Len(bf.entry.timestamps) + Len(bf.missing)
    /\ \A k \in 1..Len(bf.missing) :
          \E i \in 1..Len(ArrayOfTimestamps) :
             /\ Abs(ArrayOfTimestamps[i] - bf.missing[k]) <= 1800
             /\ \A j \in 1..Len(bf.entry.timestamps) :
                   bf.entry.timestamps[j] # ArrayOfTimestamps[i]

\* C30: after a backfill in which every call succeeded and every estimate
\* converged, the series the retention pass leaves has, for every canonical
\* instant of the window before the current timestamp, a near-target sample
\* classified to it, and the pass removes no sample the backfill inserted.
C30_BackfillCompletesWindow ==
    [][BackfillSucceeded =>
          /\ \A T \in WindowInstantsBefore(bf.current_timestamp) :
                ClassifiedTo(ArrayOfTimestamps', T) # {}
          /\ \A i \in 1..Len(ArrayOfTimestamps) :
                (\A j \in 1..Len(bf.entry.timestamps) :
                    bf.entry.timestamps[j] # ArrayOfTimestamps[i])
                => \E m \in 1..Len(ArrayOfTimestamps') :
                      ArrayOfTimestamps'[m] = ArrayOfTimestamps[i]]_vars

=============================================================================
